---- MODULE Spec2Model ----
(***************************************************************************)
(* mysql-mcp-server: the request handlers of server.py (list_tools,        *)
(* list_resources, call_tool) as a state machine.  A Python str is a       *)
(* sequence of one-character strings, so that strip, upper, startswith,    *)
(* join, len and str are computed character by character.  The database    *)
(* driver (pymysql) is the environment: every call into it either raises   *)
(* or returns, and what it returns is drawn from bounded sets.             *)
(***************************************************************************)
EXTENDS Integers, Sequences, FiniteSets, TLC

\* Every field name of the records of this module, in the order in which each
\* record below lists the fields it has, with what the field holds.
Fields ==
  [ set |-> "os.getenv gave a str", some |-> "dict.get found the key",
    exc |-> "an exception was raised", val |-> "the str, text or message",
    MYSQL_USER |-> "os.getenv", MYSQL_PASSWORD |-> "os.getenv",
    MYSQL_DATABASE |-> "os.getenv",
    host |-> "str", port |-> "int", user |-> "os.getenv", password |-> "os.getenv",
    database |-> "os.getenv",
    raised |-> "ValueError was raised", config |-> "the configuration",
    kind |-> "return or raise", msg |-> "message of the exception",
    ret |-> "the list returned", calls |-> "driver calls, in order",
    branch |-> "if/elif branch entered",
    tag |-> "int or str", int |-> "int value", chars |-> "str value",
    called |-> "the driver was called", connect |-> "connect returns",
    execute |-> "execute returns", fetch |-> "fetchall returns",
    description |-> "column names", rows |-> "rows", rowcount |-> "cursor.rowcount",
    commit |-> "commit returns",
    type |-> "text", text |-> "str", op |-> "handler", uri |-> "str", name |-> "str",
    mimeType |-> "str", required |-> "required arguments",
    arguments |-> "dict", query |-> "str" ]

VARIABLES env, req, drv, res, openConns, openCursors

vars == <<env, req, drv, res, openConns, openCursors>>

\* ------------------------------------------------------------- bounds
\* Largest number of rows a result set of the model holds.
MaxRows == 2
\* Largest number of tables SHOW TABLES yields for list_resources.
MaxTables == 2

\* ------------------------------------------------------ Python builtins
Whitespace == {" ", "\t", "\n", "\r", "\f"}

LowerChars == <<"a","b","c","d","e","f","g","h","i","j","k","l","m","n","o","p","q","r","s","t","u","v","w","x","y","z">>

UpperChars == <<"A","B","C","D","E","F","G","H","I","J","K","L","M","N","O","P","Q","R","S","T","U","V","W","X","Y","Z">>

DigitChars == <<"0","1","2","3","4","5","6","7","8","9">>

UpperChar(c) ==
  IF \E i \in 1..Len(LowerChars) : LowerChars[i] = c
  THEN UpperChars[CHOOSE i \in 1..Len(LowerChars) : LowerChars[i] = c]
  ELSE c

\* str.upper()
upper(s) == [i \in 1..Len(s) |-> UpperChar(s[i])]

RECURSIVE lstrip(_)
lstrip(s) == IF Len(s) > 0 /\ s[1] \in Whitespace THEN lstrip(Tail(s)) ELSE s

RECURSIVE rstrip(_)
rstrip(s) ==
  IF Len(s) > 0 /\ s[Len(s)] \in Whitespace
  THEN rstrip(SubSeq(s, 1, Len(s) - 1))
  ELSE s

\* str.strip()
strip(s) == rstrip(lstrip(s))

\* str.startswith(prefix)
startswith(s, prefix) ==
  /\ Len(prefix) <= Len(s)
  /\ \A i \in 1..Len(prefix) : s[i] = prefix[i]

\* sep.join(xs), xs a sequence of str
RECURSIVE join(_, _)
join(sep, xs) ==
  IF Len(xs) = 0 THEN <<>>
  ELSE IF Len(xs) = 1 THEN xs[1]
  ELSE xs[1] \o sep \o join(sep, Tail(xs))

\* c * n for a one-character str c: empty when n <= 0
Repeat(c, n) == [i \in 1..n |-> c]

\* sum(len(name) for name in names)
RECURSIVE SumLen(_)
SumLen(names) == IF Len(names) = 0 THEN 0 ELSE Len(names[1]) + SumLen(Tail(names))

\* str(n) for an int n
RECURSIVE IntStr(_)
IntStr(n) ==
  IF n < 0 THEN <<"-">> \o IntStr(0 - n)
  ELSE IF n < 10 THEN <<DigitChars[n + 1]>>
  ELSE IntStr(n \div 10) \o <<DigitChars[(n % 10) + 1]>>

\* Database values as the driver hands them over: int, str or None.
IntVal(n) == [tag |-> "int", int |-> n, chars |-> <<>>]

StrVal(s) == [tag |-> "str", int |-> 0, chars |-> s]

\* str(value)
str(v) == IF v.tag = "int" THEN IntStr(v.int) ELSE v.chars

\* type(value).__name__
TypeName(v) == IF v.tag = "int" THEN <<"i","n","t">> ELSE <<"s","t","r">>

\* [str(value) for value in row]
StrRow(row) == [c \in 1..Len(row) |-> str(row[c])]

\* ----------------------------------------------------- text constants
ExecuteSql == <<"e","x","e","c","u","t","e","_","s","q","l">>

MissingConfigMsg == <<"M","i","s","s","i","n","g"," ","r","e","q","u","i","r","e","d"," ","d","a","t","a","b","a","s","e"," ","c","o","n","f","i","g","u","r","a","t","i","o","n">>

UnknownToolPrefix == <<"U","n","k","n","o","w","n"," ","t","o","o","l",":"," ">>

QueryRequiredMsg == <<"Q","u","e","r","y"," ","i","s"," ","r","e","q","u","i","r","e","d">>

TablesSuffix == <<" ","t","a","b","l","e","s",":">>

NoResultsText == <<"Q","u","e","r","y"," ","e","x","e","c","u","t","e","d"," ","s","u","c","c","e","s","s","f","u","l","l","y","."," ","N","o"," ","r","e","s","u","l","t","s"," ","r","e","t","u","r","n","e","d",".">>

DatabasesHeader == <<"A","v","a","i","l","a","b","l","e"," ","d","a","t","a","b","a","s","e","s",":">>

NoColumnsText == <<"N","o"," ","c","o","l","u","m","n","s"," ","f","o","u","n","d"," ","o","r"," ","t","a","b","l","e"," ","d","o","e","s","n","'","t"," ","e","x","i","s","t",".">>

AffectedPrefix == <<"Q","u","e","r","y"," ","e","x","e","c","u","t","e","d"," ","s","u","c","c","e","s","s","f","u","l","l","y","."," ","A","f","f","e","c","t","e","d"," ","r","o","w","s",":"," ">>

DdlText == <<"D","D","L"," ","s","t","a","t","e","m","e","n","t"," ","e","x","e","c","u","t","e","d"," ","s","u","c","c","e","s","s","f","u","l","l","y",".">>

BareSuccessText == <<"Q","u","e","r","y"," ","e","x","e","c","u","t","e","d"," ","s","u","c","c","e","s","s","f","u","l","l","y",".">>

ErrorPrefix == <<"E","r","r","o","r"," ","e","x","e","c","u","t","i","n","g"," ","q","u","e","r","y",":"," ">>

ColSep == <<" ","|"," ">>

Newline == <<"\n">>

\* ------------------------------------------------ process environment
\* os.getenv(name): None (set = FALSE) or a str.
Unset == [set |-> FALSE, val |-> <<>>]

EnvStr(s) == [set |-> TRUE, val |-> s]

\* bool(value) of an os.getenv result: None and "" are falsy.
Truthy(v) == v.set /\ Len(v.val) > 0

EnvVars == {"MYSQL_USER", "MYSQL_PASSWORD", "MYSQL_DATABASE"}

EnvChoices ==
  [ MYSQL_USER     : {Unset, EnvStr(<<>>), EnvStr(<<"r","o","o","t">>)},
    MYSQL_PASSWORD : {Unset, EnvStr(<<"p","w">>)},
    MYSQL_DATABASE : {Unset, EnvStr(<<>>), EnvStr(<<"s","h","o","p">>)} ]

DefaultHost == <<"l","o","c","a","l","h","o","s","t">>

DefaultPort == 3306

\* get_db_config(): the configuration, or ValueError when a required
\* variable is missing or empty.
get_db_config(e) ==
  LET config == [ host     |-> DefaultHost,
                  port     |-> DefaultPort,
                  user     |-> e.MYSQL_USER,
                  password |-> e.MYSQL_PASSWORD,
                  database |-> e.MYSQL_DATABASE ]
  IN  IF ~(Truthy(config.user) /\ Truthy(config.password) /\ Truthy(config.database))
      THEN [raised |-> TRUE, config |-> config]
      ELSE [raised |-> FALSE, config |-> config]

\* ------------------------------------------------------- the driver
\* What pymysql does during one request: connect, cursor.execute,
\* cursor.fetchall and conn.commit each succeed or raise; after a successful
\* execute the cursor holds description (empty: None, no result set), the rows
\* fetchall yields, and rowcount.
Values == {IntVal(1), StrVal(<<"a">>), StrVal(<<"b","\n","c">>), StrVal(<<"Y","E","S">>)}

Headers == { << <<"i","d">> >>, << <<"i","d">>, <<"n","a","m","e">> >>, << <<"F","i","e","l","d">>, <<"T","y","p","e">>, <<"N","u","l","l">> >> }

AffectedCounts == {0, 1, 12}

TableNames == { <<"o","r","d","e","r","s">>, <<"u","s","e","r","s">> }

SeqsUpTo(S, n) == UNION {[1..k -> S] : k \in 0..n}

\* The values a column holds, by its position: the first column an int or
\* a str, the second a str, with or without a newline in it, the third a str.
ColumnValues ==
  << {IntVal(1), StrVal(<<"a">>)}, {StrVal(<<"a">>), StrVal(<<"b","\n","c">>)}, {StrVal(<<"Y","E","S">>)} >>

RowsOf(h) == {r \in [1..Len(h) -> Values] : \A c \in 1..Len(h) : r[c] \in ColumnValues[c]}

ResultRows(h) == SeqsUpTo(RowsOf(h), MaxRows)

Outcome(c, x, f, h, r, n, k) ==
  [called |-> TRUE, connect |-> c, execute |-> x, fetch |-> f, description |-> h,
   rows |-> r, rowcount |-> n, commit |-> k]

\* The request never reached the driver.
NotCalled == [Outcome(FALSE, FALSE, FALSE, <<>>, <<>>, 0, FALSE) EXCEPT !.called = FALSE]

ConnectFails == Outcome(FALSE, FALSE, FALSE, <<>>, <<>>, 0, FALSE)

ExecuteFails == Outcome(TRUE, FALSE, FALSE, <<>>, <<>>, 0, FALSE)

DriverOutcomes ==
  {ConnectFails, ExecuteFails}
  \cup {Outcome(TRUE, TRUE, f, <<>>, <<>>, n, k) :
          f \in BOOLEAN, n \in AffectedCounts, k \in BOOLEAN}
  \cup {Outcome(TRUE, TRUE, FALSE, h, <<>>, 0, k) : h \in Headers, k \in BOOLEAN}
  \cup UNION {{Outcome(TRUE, TRUE, TRUE, h, r, Len(r), k) :
                 r \in ResultRows(h), k \in BOOLEAN} : h \in Headers}

ListOutcomes ==
  {ConnectFails, ExecuteFails,
   Outcome(TRUE, TRUE, FALSE, << <<"T","a","b","l","e","s","_","i","n","_","s","h","o","p">> >>, <<>>, 0, TRUE)}
  \cup {Outcome(TRUE, TRUE, TRUE, << <<"T","a","b","l","e","s","_","i","n","_","s","h","o","p">> >>, r, Len(r), TRUE) :
          r \in SeqsUpTo({<<StrVal(t)>> : t \in TableNames}, MaxTables)}

ConnectErrMsg == <<"(","2","0","0","3",","," ","\"","C","a","n","'","t"," ","c","o","n","n","e","c","t","\"",")">>

ExecuteErrMsg == <<"(","1","0","6","4",","," ","'","s","y","n","t","a","x"," ","e","r","r","o","r","'",")">>

FetchErrMsg == <<"(","2","0","1","3",","," ","'","L","o","s","t"," ","c","o","n","n","e","c","t","i","o","n","'",")">>

CommitErrMsg == <<"(","1","2","0","5",","," ","'","L","o","c","k"," ","w","a","i","t"," ","t","i","m","e","o","u","t","'",")">>

\* --------------------------------------------------------- requests
ToolNames == {ExecuteSql, <<"q","u","e","r","y">>}

Queries ==
  { <<>>,
    <<" ">>,
    <<"S","H","O","W"," ","T","A","B","L","E","S">>,
    <<"s","h","o","w"," ","t","a","b","l","e","s">>,
    <<"S","H","O","W"," "," ","T","A","B","L","E","S">>,
    <<"S","H","O","W">>,
    <<"S","E","L","E","C","T"," ","1">>,
    <<"S","E","L","E","C","T"," ","i","d",","," ","n","a","m","e"," ","F","R","O","M"," ","u","s","e","r","s">>,
    <<"-","-"," ","c","\n","S","E","L","E","C","T"," ","1">>,
    <<"S","H","O","W"," ","T","A","B","L","E","S"," ","L","I","K","E"," ","'","u","%","'">>,
    <<"d","e","s","c","r","i","b","i","n","g">>,
    <<"\n","\t","D","r","o","p"," ","T","A","B","L","E"," ","t"," ">>,
    <<"C","A","L","L"," ","p","(",")">>,
    <<" ","s","e","l","e","c","t"," ","1","\n">>,
    <<"S","E","L","E","C","T","E","D">>,
    <<"(","S","E","L","E","C","T"," ","1",")">>,
    <<"S","H","O","W"," ","D","A","T","A","B","A","S","E","S">>,
    <<"D","E","S","C","R","I","B","E"," ","t">>,
    <<"d","e","s","c"," ","t">>,
    <<"S","H","O","W"," ","C","O","L","U","M","N","S"," ","F","R","O","M"," ","t">>,
    <<"I","N","S","E","R","T"," ","I","N","T","O"," ","t"," ","V","A","L","U","E","S"," ","(","1",")">>,
    <<"\t","u","p","d","a","t","e"," ","t"," ","S","E","T"," ","a","=","1">>,
    <<"D","E","L","E","T","E"," ","F","R","O","M"," ","t">>,
    <<"C","R","E","A","T","E"," ","T","A","B","L","E"," ","t"," ","(","a"," ","I","N","T",")">>,
    <<"A","L","T","E","R"," ","T","A","B","L","E"," ","t"," ","A","D","D"," ","b"," ","I","N","T">>,
    <<"D","R","O","P"," ","T","A","B","L","E"," ","t">>,
    <<"T","R","U","N","C","A","T","E"," ","t">>,
    <<"S","E","T"," ","@","a"," ","="," ","1">>,
    <<"R","E","P","L","A","C","E"," ","I","N","T","O"," ","t"," ","V","A","L","U","E","S"," ","(","1",")">>,
    <<"E","X","P","L","A","I","N"," ","S","E","L","E","C","T"," ","1">> }

\* arguments: a dict with or without the key "query".
NoArguments == [k \in {} |-> <<>>]

ArgumentChoices == {NoArguments} \cup {[query |-> q] : q \in Queries}

\* arguments.get(key): None (some = FALSE) or the value.
DictGet(d, key) ==
  IF key \in DOMAIN d THEN [some |-> TRUE, val |-> d[key]]
  ELSE [some |-> FALSE, val |-> <<>>]

\* ------------------------------------------------- handler outcomes
\* What the code inside the try block did: returned text (exc = FALSE) or
\* raised an exception with message val; calls lists the driver calls made,
\* in order; branch names the if/elif branch entered ("NONE": none).
Ok(text, calls, branch) == [exc |-> FALSE, val |-> text, calls |-> calls, branch |-> branch]

Err(msg, calls, branch) == [exc |-> TRUE, val |-> msg, calls |-> calls, branch |-> branch]

\* What a handler hands to the protocol host: a returned list, or an
\* exception raised to it.
Return(items, calls, branch) ==
  [kind |-> "return", msg |-> <<>>, ret |-> items, calls |-> calls, branch |-> branch]

Raise(msg) ==
  [kind |-> "raise", msg |-> msg, ret |-> <<>>, calls |-> <<>>, branch |-> "NONE"]

TextContent(text) == [type |-> "text", text |-> text]

\* TabularResult with the first row left out of the rendering.
TabularResult_SkipsFirstRow(field_names, rows) ==
  << join(ColSep, field_names),
     Repeat("-", SumLen(field_names) + 3 * (Len(field_names) - 1)) >>
  \o [i \in 1..(Len(rows) - 1) |-> join(ColSep, StrRow(rows[i + 1]))]

\* TabularResult with 3 dashes counted for every column, the first included.
TabularResult_WideSeparator(field_names, rows) ==
  << join(ColSep, field_names),
     Repeat("-", SumLen(field_names) + 3 * Len(field_names)) >>
  \o [i \in 1..Len(rows) |-> join(ColSep, StrRow(rows[i]))]

\* The header line, the separator line, and one line per row.
TabularResult(field_names, rows) ==
  << join(ColSep, field_names),
     Repeat("-", SumLen(field_names) + 3 * (Len(field_names) - 1)) >>
  \o [i \in 1..Len(rows) |-> join(ColSep, StrRow(rows[i]))]

\* "\n".join(result) raises TypeError on the first item that is no str.
JoinTypeErrorMsg(k, v) ==
  <<"s","e","q","u","e","n","c","e"," ","i","t","e","m"," ">> \o IntStr(k) \o <<":"," ","e","x","p","e","c","t","e","d"," ","s","t","r"," ","i","n","s","t","a","n","c","e",","," ">>
  \o TypeName(v) \o <<" ","f","o","u","n","d">>

\* "\n".join([header] + [row[0] for row in rows])
NameList(header, rows, calls, branch) ==
  LET names == [i \in 1..Len(rows) |-> rows[i][1]]
      bad == {i \in 1..Len(names) : names[i].tag # "str"}
  IN  IF bad # {}
      THEN LET k == CHOOSE i \in bad : \A j \in bad : i <= j
           IN  Err(JoinTypeErrorMsg(k, names[k]), calls, branch)
      ELSE Ok(join(Newline, <<header>> \o [i \in 1..Len(names) |-> names[i].chars]),
              calls, branch)

\* query_upper without the strip.
query_upper_NoStrip(query) == upper(query)

\* query.strip().upper()
query_upper(query) == upper(strip(query))

\* FetchTable without the test for no rows.
FetchTable_NoEmptyTest(d, emptyText, branch) ==
  IF ~d.fetch THEN Err(FetchErrMsg, <<"fetchall">>, branch)
  ELSE Ok(join(Newline, TabularResult(d.description, d.rows)), <<"fetchall">>, branch)

\* The rows fetched and rendered by the SELECT, DESCRIBE and SHOW COLUMNS
\* branches: the fixed sentence for no rows, else the table.
FetchTable(d, emptyText, branch) ==
  IF ~d.fetch THEN Err(FetchErrMsg, <<"fetchall">>, branch)
  ELSE IF Len(d.rows) = 0 THEN Ok(emptyText, <<"fetchall">>, branch)
  ELSE Ok(join(Newline, TabularResult(d.description, d.rows)), <<"fetchall">>, branch)

\* CommitThen without the call of commit.
CommitThen_NoCommit(d, text, before, branch) == Ok(text, before, branch)

\* conn.commit() and then the response.
CommitThen(d, text, before, branch) ==
  IF ~d.commit THEN Err(CommitErrMsg, before \o <<"commit">>, branch)
  ELSE Ok(text, before \o <<"commit">>, branch)

\* OtherQueries without the inner except clause.
OtherQueries_NoExcept(d) == FetchTable(d, NoResultsText, "OTHER")

\* The else branch: try to fetch and render as SELECT does; on any
\* exception commit and answer with the bare success sentence.
OtherQueries(d) ==
  LET r == FetchTable(d, NoResultsText, "OTHER")
  IN  IF r.exc THEN CommitThen(d, BareSuccessText, r.calls, "OTHER") ELSE r

\* The if/elif chain after cursor.execute(query) has succeeded.
Dispatch(config, query, d) ==
  LET q == query_upper(query) IN
  IF startswith(q, <<"S","H","O","W"," ","T","A","B","L","E","S">>) THEN
    IF ~d.fetch THEN Err(FetchErrMsg, <<"fetchall">>, "SHOW TABLES")
    ELSE NameList(config.database.val \o TablesSuffix, d.rows, <<"fetchall">>, "SHOW TABLES")
  ELSE IF startswith(q, <<"S","E","L","E","C","T">>) THEN
    FetchTable(d, NoResultsText, "SELECT")
  ELSE IF startswith(q, <<"S","H","O","W"," ","D","A","T","A","B","A","S","E","S">>) THEN
    IF ~d.fetch THEN Err(FetchErrMsg, <<"fetchall">>, "SHOW DATABASES")
    ELSE NameList(DatabasesHeader, d.rows, <<"fetchall">>, "SHOW DATABASES")
  ELSE IF startswith(q, <<"D","E","S","C","R","I","B","E">>) \/ startswith(q, <<"D","E","S","C">>) THEN
    FetchTable(d, NoColumnsText, "DESCRIBE")
  ELSE IF startswith(q, <<"S","H","O","W"," ","C","O","L","U","M","N","S">>) THEN
    FetchTable(d, NoColumnsText, "SHOW COLUMNS")
  ELSE IF \E cmd \in { <<"I","N","S","E","R","T">>, <<"U","P","D","A","T","E">>, <<"D","E","L","E","T","E">> } : startswith(q, cmd) THEN
    CommitThen(d, AffectedPrefix \o IntStr(d.rowcount), <<>>, "DML")
  ELSE IF \E cmd \in { <<"C","R","E","A","T","E">>, <<"A","L","T","E","R">>, <<"D","R","O","P">>, <<"T","R","U","N","C","A","T","E">> } : startswith(q, cmd) THEN
    CommitThen(d, DdlText, <<>>, "DDL")
  ELSE OtherQueries(d)

\* WithExit that closes only when the block returned.
WithExit_OnReturnOnly(r, close) ==
  IF r.exc THEN r ELSE [r EXCEPT !.calls = @ \o <<close>>]

\* Leaving a with block: __exit__ closes the cursor or the connection,
\* whether the block returned or raised.
WithExit(r, close) == [r EXCEPT !.calls = @ \o <<close>>]

\* with conn.cursor() as cursor: cursor.execute(query); ...
WithCursor(config, query, d) ==
  LET body ==
        IF ~d.execute THEN Err(ExecuteErrMsg, <<"execute">>, "NONE")
        ELSE LET r == Dispatch(config, query, d)
             IN  [r EXCEPT !.calls = <<"execute">> \o @]
  IN  WithExit([body EXCEPT !.calls = <<"cursor">> \o @], "cursor.close")

\* conn = pymysql.connect(**config); with conn: ...
WithConn(config, query, d) ==
  IF ~d.connect THEN Err(ConnectErrMsg, <<"connect">>, "NONE")
  ELSE LET r == WithCursor(config, query, d)
       IN  WithExit([r EXCEPT !.calls = <<"connect">> \o @], "conn.close")

\* Validate that rejects a missing query but lets the empty one through.
Validate_EmptyQueryPasses(e, name, arguments) ==
  LET c == get_db_config(e)
      query == DictGet(arguments, "query")
  IN  IF c.raised THEN [raised |-> TRUE, msg |-> MissingConfigMsg]
      ELSE IF name # ExecuteSql THEN [raised |-> TRUE, msg |-> UnknownToolPrefix \o name]
      ELSE IF ~query.some THEN [raised |-> TRUE, msg |-> QueryRequiredMsg]
      ELSE [raised |-> FALSE, msg |-> <<>>]

\* call_tool before its try block: the configuration is read, then the tool
\* name and the query argument are checked; each failure raises ValueError.
Validate(e, name, arguments) ==
  LET c == get_db_config(e)
      query == DictGet(arguments, "query")
  IN  IF c.raised THEN [raised |-> TRUE, msg |-> MissingConfigMsg]
      ELSE IF name # ExecuteSql THEN [raised |-> TRUE, msg |-> UnknownToolPrefix \o name]
      ELSE IF ~query.some \/ Len(query.val) = 0
           THEN [raised |-> TRUE, msg |-> QueryRequiredMsg]
      ELSE [raised |-> FALSE, msg |-> <<>>]

\* ExceptClause that lets the exception through to the caller.
ExceptClause_Reraises(r) ==
  IF r.exc
  THEN [kind |-> "raise", msg |-> r.val, ret |-> <<>>, calls |-> r.calls, branch |-> r.branch]
  ELSE Return(<<TextContent(r.val)>>, r.calls, r.branch)

\* The except clause of call_tool: the exception becomes the response.
ExceptClause(r) ==
  IF r.exc
  THEN Return(<<TextContent(ErrorPrefix \o r.val)>>, r.calls, r.branch)
  ELSE Return(<<TextContent(r.val)>>, r.calls, r.branch)

\* call_tool(name, arguments)
call_tool(e, name, arguments, d) ==
  LET v == Validate(e, name, arguments)
  IN  IF v.raised THEN Raise(v.msg)
      ELSE ExceptClause(WithConn(get_db_config(e).config, arguments.query, d))

\* types.Resource(...) for one row of SHOW TABLES
Resource(table) ==
  [ description |-> <<"D","a","t","a"," ","i","n"," ","t","a","b","l","e",":"," ">> \o str(table[1]),
    uri         |-> <<"m","y","s","q","l",":","/","/">> \o str(table[1]) \o <<"/","d","a","t","a">>,
    name        |-> <<"T","a","b","l","e",":"," ">> \o str(table[1]),
    mimeType    |-> <<"t","e","x","t","/","p","l","a","i","n">> ]

\* The try block of list_resources.
ListBody(d) ==
  IF ~d.connect THEN Err(ConnectErrMsg, <<"connect">>, "NONE")
  ELSE
    LET body ==
          IF ~d.execute THEN Err(ExecuteErrMsg, <<"execute">>, "NONE")
          ELSE IF ~d.fetch THEN Err(FetchErrMsg, <<"execute", "fetchall">>, "NONE")
          ELSE Ok([i \in 1..Len(d.rows) |-> Resource(d.rows[i])],
                  <<"execute", "fetchall">>, "NONE")
        cur == WithExit([body EXCEPT !.calls = <<"cursor">> \o @], "cursor.close")
    IN  WithExit([cur EXCEPT !.calls = <<"connect">> \o @], "conn.close")

\* list_resources()
list_resources(e, d) ==
  LET c == get_db_config(e)
  IN  IF c.raised THEN Raise(MissingConfigMsg)
      ELSE LET r == ListBody(d)
           IN  IF r.exc THEN Return(<<>>, r.calls, "NONE")
               ELSE Return(r.val, r.calls, "NONE")

\* list_tools()
list_tools ==
  Return(<< [ description |-> <<"E","x","e","c","u","t","e"," ","a","n"," ","S","Q","L"," ","q","u","e","r","y"," ","o","n"," ","t","h","e"," ","M","y","S","Q","L"," ","s","e","r","v","e","r">>,
              name |-> ExecuteSql,
              required |-> << <<"q","u","e","r","y">> >> ] >>, <<>>, "NONE")

\* ------------------------------------------------------ state machine
RECURSIVE Count(_, _)
Count(calls, c) ==
  IF Len(calls) = 0 THEN 0
  ELSE (IF calls[1] = c THEN 1 ELSE 0) + Count(Tail(calls), c)

\* Connections (cursors) the calls opened minus those they closed; connect
\* opens a connection only when it does not raise.
ConnDelta(calls, d) ==
  (IF d.connect THEN Count(calls, "connect") ELSE 0) - Count(calls, "conn.close")

CursorDelta(calls) == Count(calls, "cursor") - Count(calls, "cursor.close")

NoRequest == [op |-> "none", name |-> <<>>, arguments |-> NoArguments]

Init ==
  /\ env \in EnvChoices
  /\ req = NoRequest
  /\ drv = NotCalled
  /\ res = Return(<<>>, <<>>, "NONE")
  /\ openConns = 0
  /\ openCursors = 0

\* The protocol host runs one handler at a time, to completion: a handler
\* starts only when no response is pending.
Served(request, r, d) ==
  /\ req = NoRequest
  /\ req' = request
  /\ res' = r
  /\ drv' = IF Len(r.calls) > 0 THEN d ELSE NotCalled
  /\ openConns' = openConns + ConnDelta(r.calls, d)
  /\ openCursors' = openCursors + CursorDelta(r.calls)
  /\ UNCHANGED env

ListTools ==
  /\ req = NoRequest
  /\ req' = [op |-> "list_tools", name |-> <<>>, arguments |-> NoArguments]
  /\ res' = list_tools
  /\ drv' = NotCalled
  /\ UNCHANGED <<env, openConns, openCursors>>

ListResources ==
  \E d \in (IF get_db_config(env).raised THEN {NotCalled} ELSE ListOutcomes) :
    Served([op |-> "list_resources", name |-> <<>>, arguments |-> NoArguments],
           list_resources(env, d), d)

CallTool ==
  \E name \in ToolNames, arguments \in ArgumentChoices :
    \E d \in (IF Validate(env, name, arguments).raised
              THEN {NotCalled} ELSE DriverOutcomes) :
      Served([op |-> "call_tool", name |-> name, arguments |-> arguments],
             call_tool(env, name, arguments, d), d)

\* The host writes the response and waits for the next request; nothing of
\* the request outlives it but the connections and cursors left open.
AwaitRequest ==
  /\ req # NoRequest
  /\ req' = NoRequest
  /\ drv' = NotCalled
  /\ res' = Return(<<>>, <<>>, "NONE")
  /\ UNCHANGED <<env, openConns, openCursors>>

Next == ListTools \/ ListResources \/ CallTool \/ AwaitRequest

Spec == Init /\ [][Next]_vars


\* ------------------------------------------------- reading a state
\* The response pending is call_tool's.
IsCall == req.op = "call_tool"


\* The statement of the pending call_tool executed without error.
Executed == IsCall /\ drv.called /\ drv.connect /\ drv.execute

Query == req.arguments.query

\* The configuration is complete: the three required variables are set and
\* not empty.
ConfigValid ==
  \A v \in EnvVars : env[v].set /\ env[v].val # <<>>

\* The pending call_tool is well formed: complete configuration, the tool
\* execute_sql, a query that is present and not empty.
ValidCall ==
  /\ IsCall
  /\ ConfigValid
  /\ req.name = ExecuteSql
  /\ "query" \in DOMAIN req.arguments
  /\ Query # <<>>

Text == res.ret[1].text

Commits == Count(res.calls, "commit")

\* text.split("\n")
RECURSIVE Lines(_)
Lines(s) ==
  IF \A i \in 1..Len(s) : s[i] # "\n" THEN <<s>>
  ELSE LET i == CHOOSE k \in 1..Len(s) : s[k] = "\n" /\ \A j \in 1..(k - 1) : s[j] # "\n"
       IN  <<SubSeq(s, 1, i - 1)>> \o Lines(SubSeq(s, i + 1, Len(s)))

\* Position of the first call c in calls, 0 when there is none.
IndexOf(calls, c) ==
  IF \E i \in 1..Len(calls) : calls[i] = c
  THEN CHOOSE i \in 1..Len(calls) : calls[i] = c /\ \A j \in 1..(i - 1) : calls[j] # c
  ELSE 0

\* The classification table of the specification, in its order.
PrefixTable ==
  << << <<"S","H","O","W"," ","T","A","B","L","E","S">>,    "SHOW TABLES" >>,
     << <<"S","E","L","E","C","T">>,         "SELECT" >>,
     << <<"S","H","O","W"," ","D","A","T","A","B","A","S","E","S">>, "SHOW DATABASES" >>,
     << <<"D","E","S","C","R","I","B","E">>,       "DESCRIBE" >>,
     << <<"D","E","S","C">>,           "DESCRIBE" >>,
     << <<"S","H","O","W"," ","C","O","L","U","M","N","S">>,   "SHOW COLUMNS" >>,
     << <<"I","N","S","E","R","T">>,         "DML" >>,
     << <<"U","P","D","A","T","E">>,         "DML" >>,
     << <<"D","E","L","E","T","E">>,         "DML" >>,
     << <<"C","R","E","A","T","E">>,         "DDL" >>,
     << <<"A","L","T","E","R">>,          "DDL" >>,
     << <<"D","R","O","P">>,           "DDL" >>,
     << <<"T","R","U","N","C","A","T","E">>,       "DDL" >> >>

\* The class of the first row of the table whose prefix the trimmed,
\* upper-cased text starts with; "OTHER" when no row matches.
FirstMatch(query) ==
  LET q == upper(strip(query))
      hits == {i \in 1..Len(PrefixTable) : startswith(q, PrefixTable[i][1])}
  IN  IF hits = {} THEN "OTHER"
      ELSE PrefixTable[CHOOSE i \in hits : \A j \in hits : i <= j][2]

TabularClasses == {"SELECT", "DESCRIBE", "SHOW COLUMNS", "OTHER"}

ReadClasses == {"SHOW TABLES", "SELECT", "SHOW DATABASES", "DESCRIBE", "SHOW COLUMNS"}

\* fetchall was called and raised.
FetchRaised == Executed /\ Count(res.calls, "fetchall") > 0 /\ ~drv.fetch

\* The pending response renders a result set with at least one row.
Tabular ==
  /\ Executed
  /\ FirstMatch(Query) \in TabularClasses
  /\ drv.fetch
  /\ Len(drv.rows) > 0

NoNewline(s) == \A i \in 1..Len(s) : s[i] # "\n"

AllDashes(s) == \A i \in 1..Len(s) : s[i] = "-"

\* ------------------------------------------------------------ claims

\* C1: a statement that executes takes exactly the branch of the first row of
\* the prefix table that the trimmed, upper-cased query text matches, the
\* fallback branch when no row matches, and never a second branch.
C1_BranchIsFirstPrefixMatch ==
  Executed => res.branch = FirstMatch(Query)

C1_Witness ==
  /\ Executed
  /\ Query = <<" ","s","e","l","e","c","t"," ","1","\n">>
  /\ res.branch = "SELECT"

\* C2 as stated: a statement in the INSERT/UPDATE/DELETE/CREATE/ALTER/DROP/
\* TRUNCATE classes that executes has commit called exactly once, after
\* execute; every other statement returns without any commit.
C2_Original ==
  Executed =>
    IF FirstMatch(Query) \in {"DML", "DDL"}
    THEN /\ Commits = 1
         /\ IndexOf(res.calls, "execute") < IndexOf(res.calls, "commit")
    ELSE Commits = 0

\* C2 amended: the mutating classes commit exactly once, after execute; the
\* SHOW TABLES, SELECT, SHOW DATABASES, DESCRIBE/DESC and SHOW COLUMNS classes
\* never commit; a statement matching no prefix commits exactly once when its
\* fetchall raises, and not at all otherwise.
C2_CommitByClass ==
  Executed =>
    IF FirstMatch(Query) \in {"DML", "DDL"}
    THEN /\ Commits = 1
         /\ IndexOf(res.calls, "execute") < IndexOf(res.calls, "commit")
    ELSE IF FirstMatch(Query) \in ReadClasses
    THEN Commits = 0
    ELSE /\ Commits = (IF drv.fetch THEN 0 ELSE 1)
         /\ Commits = 1 => IndexOf(res.calls, "execute") < IndexOf(res.calls, "commit")

C2_Witness ==
  /\ Executed
  /\ Query = <<"I","N","S","E","R","T"," ","I","N","T","O"," ","t"," ","V","A","L","U","E","S"," ","(","1",")">>
  /\ drv.commit
  /\ res.calls = <<"connect", "cursor", "execute", "commit", "cursor.close", "conn.close">>

\* Connections and cursors open after the first k calls of the request.
OpenConnsAt(k) == ConnDelta(SubSeq(res.calls, 1, k), drv)

OpenCursorsAt(k) == CursorDelta(SubSeq(res.calls, 1, k))

\* C3: a request connects at most once; at every point of a request at most
\* one connection and one cursor are open, a cursor only on an open
\* connection; and when the request ends, on whatever path, none is open.
C3_ConnectionScoped ==
  /\ openConns = 0
  /\ openCursors = 0
  /\ Count(res.calls, "connect") <= 1
  /\ \A k \in 0..Len(res.calls) :
       /\ OpenConnsAt(k) \in {0, 1}
       /\ OpenCursorsAt(k) \in {0, 1}
       /\ OpenCursorsAt(k) <= OpenConnsAt(k)

C3_Witness ==
  /\ IsCall
  /\ ~drv.commit
  /\ res.calls = <<"connect", "cursor", "execute", "fetchall", "commit", "cursor.close", "conn.close">>
  /\ openConns = 0

\* C4 as stated: list_resources never raises; it returns the empty list on a
\* configuration, connection or query failure, and otherwise one descriptor
\* per table, in order, with uri mysql://{table}/data.
C4_ListNeverRaises ==
  req.op = "list_resources" =>
    /\ res.kind = "return"
    /\ IF ConfigValid /\ drv.connect /\ drv.execute /\ drv.fetch
       THEN /\ Len(res.ret) = Len(drv.rows)
            /\ \A i \in 1..Len(drv.rows) :
                 res.ret[i].uri = <<"m","y","s","q","l",":","/","/">> \o drv.rows[i][1].chars \o <<"/","d","a","t","a">>
       ELSE res.ret = <<>>

\* C5: with a complete configuration call_tool raises exactly when the tool
\* name is not execute_sql or the query is missing or empty, and when it
\* raises the driver was never called.
C5_RaisesIffMalformed ==
  (IsCall /\ ConfigValid) =>
    /\ res.kind = "raise" <=>
         \/ req.name # ExecuteSql
         \/ "query" \notin DOMAIN req.arguments
         \/ Query = <<>>
    /\ res.kind = "raise" =>
         /\ res.calls = <<>>
         /\ drv = NotCalled
         /\ openConns = 0

C5_Witness ==
  /\ IsCall
  /\ ConfigValid
  /\ req.name = ExecuteSql
  /\ "query" \in DOMAIN req.arguments
  /\ Query = <<>>
  /\ res.kind = "raise"
  /\ res.msg = QueryRequiredMsg

\* The message of the exception raised by connect, execute or fetchall in
\* the pending call_tool.
DriverErrMsg ==
  IF ~drv.connect THEN ConnectErrMsg
  ELSE IF ~drv.execute THEN ExecuteErrMsg
  ELSE FetchErrMsg

\* connect, execute or fetchall raised in the pending call_tool.
DriverRaised == ValidCall /\ (~drv.connect \/ ~drv.execute \/ FetchRaised)

NotRetried ==
  /\ Count(res.calls, "connect") <= 1
  /\ Count(res.calls, "execute") <= 1
  /\ Count(res.calls, "fetchall") <= 1

\* C6 as stated: in a valid call_tool every exception of connect, execute or
\* fetchall ends in the one TextContent "Error executing query: " + message,
\* with no retry and no commit.
C6_Original ==
  DriverRaised =>
    /\ Len(res.ret) = 1
    /\ Text = ErrorPrefix \o DriverErrMsg
    /\ NotRetried
    /\ Commits = 0

\* C6 amended: as stated for an exception of connect, of execute, and of
\* fetchall in the SHOW TABLES, SELECT, SHOW DATABASES, DESCRIBE/DESC and SHOW
\* COLUMNS branches; an exception of fetchall in the fallback branch is
\* swallowed: commit is called once and the one TextContent is "Query executed
\* successfully.", or "Error executing query: " + the message of the
\* exception commit raised.  No exception reaches the caller and nothing is
\* retried.
C6_DriverErrorsBecomeText ==
  DriverRaised =>
    /\ res.kind = "return"
    /\ Len(res.ret) = 1
    /\ NotRetried
    /\ IF FetchRaised /\ FirstMatch(Query) = "OTHER"
       THEN /\ Commits = 1
            /\ Text = (IF drv.commit THEN BareSuccessText ELSE ErrorPrefix \o CommitErrMsg)
       ELSE /\ Commits = 0
            /\ Text = ErrorPrefix \o DriverErrMsg

C6_Witness ==
  /\ ValidCall
  /\ drv.connect
  /\ ~drv.execute
  /\ Text = ErrorPrefix \o ExecuteErrMsg
  /\ res.calls = <<"connect", "cursor", "execute", "cursor.close", "conn.close">>

\* C7: a SELECT, DESCRIBE/DESC or SHOW COLUMNS statement that yields no rows
\* is answered by one fixed sentence (the SELECT one, or the no-columns one),
\* whatever the query and the columns, and never by a table: one line, with no
\* header and no separator.
C7_NoRowsFixedSentence ==
  (/\ Executed
   /\ FirstMatch(Query) \in {"SELECT", "DESCRIBE", "SHOW COLUMNS"}
   /\ drv.fetch
   /\ Len(drv.rows) = 0) =>
    /\ Text = (IF FirstMatch(Query) = "SELECT" THEN NoResultsText ELSE NoColumnsText)
    /\ Len(Lines(Text)) = 1
    /\ Commits = 0

C7_Witness ==
  /\ Executed
  /\ Query = <<"d","e","s","c"," ","t">>
  /\ drv.fetch
  /\ Len(drv.description) = 2
  /\ Len(drv.rows) = 0
  /\ Text = NoColumnsText

\* The pending response is that of a SELECT with at least one row.
SelectRows ==
  /\ Executed
  /\ FirstMatch(Query) = "SELECT"
  /\ drv.fetch
  /\ Len(drv.rows) > 0

\* The rendered lines are the header, the separator and one line per row, in
\* the order of the rows.
RowPerLine ==
  LET lines == Lines(Text)
  IN  /\ Len(lines) = 2 + Len(drv.rows)
      /\ lines[1] = join(ColSep, drv.description)
      /\ AllDashes(lines[2])
      /\ \A i \in 1..Len(drv.rows) :
           lines[i + 2] = join(ColSep, StrRow(drv.rows[i]))

\* C8 as stated: every SELECT with rows is rendered as the header line, the
\* separator line and exactly one data line per row, in order.
C8_Original == SelectRows => RowPerLine

\* No column name and no value of the result holds a newline.
NoNewlineInResult ==
  /\ \A c \in 1..Len(drv.description) : NoNewline(drv.description[c])
  /\ \A i \in 1..Len(drv.rows) :
       \A c \in 1..Len(drv.rows[i]) : NoNewline(str(drv.rows[i][c]))

\* C8 amended: as stated, for a result in which no column name and no value's
\* text holds a newline; in every case the text is the newline-join of the
\* header, the separator and one element per row, in order.
C8_RowPerLine ==
  SelectRows =>
    /\ NoNewlineInResult => RowPerLine
    /\ Text = join(Newline,
                   << join(ColSep, drv.description),
                      Repeat("-", Len(join(ColSep, drv.description))) >>
                   \o [i \in 1..Len(drv.rows) |-> join(ColSep, StrRow(drv.rows[i]))])

C8_Witness ==
  /\ SelectRows
  /\ NoNewlineInResult
  /\ drv.description = << <<"i","d">>, <<"n","a","m","e">> >>
  /\ drv.rows = << <<IntVal(1), StrVal(<<"a">>)>>, <<StrVal(<<"a">>), StrVal(<<"a">>)>> >>
  /\ Text = <<"i","d"," ","|"," ","n","a","m","e","\n","-","-","-","-","-","-","-","-","-","\n","1"," ","|"," ","a","\n","a"," ","|"," ","a">>

\* C9: in every table rendered (SELECT, DESCRIBE/DESC, SHOW COLUMNS and the
\* fallback with rows) the second line is dashes only, as many as the header
\* names are long in total plus 3 for each column after the first, which is
\* the length of the header line, whatever the rows hold; 9 for (id, name).
C9_SeparatorWidth ==
  Tabular =>
    LET lines == Lines(Text)
    IN  /\ AllDashes(lines[2])
        /\ Len(lines[2]) = SumLen(drv.description) + 3 * (Len(drv.description) - 1)
        /\ Len(lines[2]) = Len(lines[1])
        /\ lines[1] = join(ColSep, drv.description)
        /\ drv.description = << <<"i","d">>, <<"n","a","m","e">> >> => Len(lines[2]) = 9

C9_Witness ==
  /\ Tabular
  /\ FirstMatch(Query) = "SHOW COLUMNS"
  /\ drv.description = << <<"i","d">>, <<"n","a","m","e">> >>
  /\ drv.rows = << <<IntVal(1), StrVal(<<"b","\n","c">>)>> >>
  /\ Lines(Text)[2] = <<"-","-","-","-","-","-","-","-","-">>

\* C10: a statement that executes and matches no prefix ends in one of three
\* ways: rows fetched are rendered as SELECT renders them, with no commit; no
\* rows fetched give the no-results sentence, with no commit; an exception in
\* fetchall is swallowed, commit is called, and the answer is the bare success
\* sentence, or the error text when that commit raises.
C10_FallbackOutcomes ==
  (Executed /\ FirstMatch(Query) = "OTHER") =>
    /\ Len(res.ret) = 1
    /\ IF drv.fetch /\ Len(drv.rows) > 0
       THEN /\ Text = join(Newline, TabularResult(drv.description, drv.rows))
            /\ Commits = 0
       ELSE IF drv.fetch
       THEN /\ Text = NoResultsText
            /\ Commits = 0
       ELSE /\ Commits = 1
            /\ res.calls = <<"connect", "cursor", "execute", "fetchall", "commit",
                             "cursor.close", "conn.close">>
            /\ Text = (IF drv.commit THEN BareSuccessText ELSE ErrorPrefix \o CommitErrMsg)

C10_Witness ==
  /\ Executed
  /\ Query = <<"S","E","T"," ","@","a"," ","="," ","1">>
  /\ ~drv.fetch
  /\ drv.commit
  /\ Commits = 1
  /\ Text = BareSuccessText
====
